---- MODULE Spec2Model ----
(***************************************************************************)
(* Model of src/bundle/linux/common.rs of cargo-bundle:                    *)
(*   generate_icon_files  - two-pass icon resolution with a BTreeSet of    *)
(*                          (width, height, is_high_density) keys          *)
(*   tar_and_gzip_dir / create_tar_from_dir - directory to .tar.gz         *)
(*   total_dir_size       - sum of metadata lengths over a WalkDir walk    *)
(* Each function is a state machine of its own (SpecIcons, SpecTar,        *)
(* SpecSize); one action is one loop iteration or one statement of the     *)
(* function, and every fallible call (`?`) may fail nondeterministically.  *)
(***************************************************************************)
EXTENDS Integers, Sequences, FiniteSets, TLC

(* ---------------------------- bounds ----------------------------------- *)
MaxCands == 2     \* length of settings.icon_files()
MaxIcons == 2     \* images available in one icns container
MaxEntries == 3   \* filesystem entries below the root of a source tree

VARIABLES
    op,        \* which function is running: "icons", "tar" or "size"
    pc,        \* position in the running function
    result,    \* "none" while running, then "Ok" or "Err"
    failed,    \* the kind of the first failed call, "" when none failed
    \* generate_icon_files
    cands,     \* settings.icon_files(): sequence of path-or-error items
    idx,       \* position of the current `for icon_path in ...` loop
    iconIdx,   \* position of the inner `for icon_type in ...` loop
    sizes,     \* the BTreeSet of registered keys
    fs,        \* destination tree: path -> file contents
    writes,    \* history: destination writes in the order they happened
    visited,   \* history: <<pass, index>> of the candidates pulled so far
    \* the WalkDir walk of create_tar_from_dir and total_dir_size
    tree,      \* the source tree: path relative to the root -> entry
    stack,     \* WalkDir's stack of open directories
    \* tar_and_gzip_dir
    archive,   \* entries appended to the tar builder, in order
    steps,     \* history: the calls completed so far, in order
    tarFinished,  \* the tar trailer went into the gzip encoder
    gzFinished,   \* the gzip encoder wrote its trailer into the file
    flushed,      \* the output file was flushed
    destExists,   \* the file at dest_path exists
    srcExists,    \* the directory src_dir exists
    ret,       \* the value returned inside Ok(..), if any
    \* total_dir_size
    total      \* the running sum

\* nothing returned (yet)
NoValue == [some |-> FALSE]

iconVars == <<cands, idx, iconIdx, sizes, fs, writes, visited>>
walkVars == <<tree, stack>>
tarVars == <<archive, steps, tarFinished, gzFinished, flushed, destExists, srcExists>>
vars == <<op, pc, result, failed, ret, iconVars, walkVars, tarVars, total>>

(* ------------------------ generate_icon_files -------------------------- *)

\* pixel dimensions <<width, height>> a png header or a decoded raster has
ImageDims == { <<16, 16>>, <<32, 16>> }

\* one image type of an icns container: IconType::screen_width(),
\* screen_height() (icns icon types are square) and pixel_density()
IconTypes == { [w |-> 16, h |-> 16, density |-> n] : n \in {1, 2} }

IconFamilies == UNION { [1..n -> IconTypes] : n \in 1..MaxIcons }

\* An item of settings.icon_files(): an upstream error, or a path.  A path
\* is its extension, whether its stem carries the retina marker, and what
\* the file holds: the dimensions of a png header or of a decoded raster, or
\* the images available in an icns container.
ErrItem == [ok |-> FALSE]
PngItems == { [ok |-> TRUE, ext |-> "png", retina |-> r, w |-> d[1], h |-> d[2]] :
                r \in BOOLEAN, d \in ImageDims }
RasterItems == { [ok |-> TRUE, ext |-> "jpg", retina |-> r, w |-> d[1], h |-> d[2]] :
                r \in BOOLEAN, d \in ImageDims }
IcnsItems == { [ok |-> TRUE, ext |-> "icns", icons |-> f] : f \in IconFamilies }
Items == {ErrItem} \cup PngItems \cup RasterItems \cup IcnsItems

CandidateLists == UNION { [1..n -> Items] : n \in 0..MaxCands }

data_dir == "data"
binary_name == "app"

\* Path::join of a relative path onto a path without trailing separator
Join(base, rel) == base \o "/" \o rel

base_dir == Join(data_dir, "usr/share/icons/hicolor")

get_dest_path_nosuffix(width, height, is_high_density) ==
    Join(base_dir, ToString(width) \o "x" \o ToString(height)
                   \o "/apps/" \o binary_name \o ".png")

get_dest_path(width, height, is_high_density) ==
    Join(base_dir, ToString(width) \o "x" \o ToString(height)
                   \o (IF is_high_density THEN "@2x" ELSE "")
                   \o "/apps/" \o binary_name \o ".png")

\* common::is_retina(path): the filename convention for high density
is_retina(c) == c.retina

\* icon_path.extension() == Some(OsStr::new("png"))
is_png_never(c) == FALSE

is_png(c) == c.ext = "png"

is_icns(c) == c.ext = "icns"

\* icon_type.pixel_density() > 1
icns_is_high_density(t) == t.density > 1

\* sizes.contains(&(width, height, is_high_density))
sizes_contains_never(s, key) == FALSE

sizes_contains(s, key) == key \in s

\* sizes.insert((width, height, is_high_density))
sizes_insert_noop(s, key) == s

sizes_insert(s, key) == s \cup {key}

\* what the files hold
SourceBytes(i) == <<"bytes", i>>                 \* the candidate file itself
RasterPng(i) == <<"png-encoded", "raster", i, 0>>  \* PNGEncoder output
IcnsPng(i, j) == <<"png-encoded", "icns", i, j>>   \* Image::write_png output
Partial == <<"partial">>                          \* a write cut short

WriteFile(path, content) == (path :> content) @@ fs

WriteRec(path, key, i, j, content) ==
    [path |-> path, key |-> key, src |-> i, icon |-> j, content |-> content]

InitIcons ==
    /\ op = "icons"
    /\ pc = "pass1"
    /\ result = "none"
    /\ failed = ""
    /\ cands \in CandidateLists
    /\ idx = 1
    /\ iconIdx = 0
    /\ sizes = {}
    /\ fs = << >>
    /\ writes = << >>
    /\ visited = << >>
    /\ ret = NoValue
    /\ tree = << >> /\ stack = << >>
    /\ archive = << >> /\ steps = << >>
    /\ tarFinished = FALSE /\ gzFinished = FALSE /\ flushed = FALSE
    /\ destExists = FALSE /\ srcExists = FALSE
    /\ total = 0

\* `?` on an Err: the function returns the error at once
ReturnErr_swallow(kind) ==
    /\ failed' = kind
    /\ idx' = idx + 1
    /\ iconIdx' = 0
    /\ pc' = IF pc = "icns" THEN "pass2" ELSE pc
    /\ UNCHANGED result

ReturnErr(kind) ==
    /\ failed' = kind
    /\ result' = "Err"
    /\ pc' = "done"
    /\ UNCHANGED <<idx, iconIdx>>

Continue ==
    /\ idx' = idx + 1
    /\ UNCHANGED <<pc, result, failed, iconIdx>>

\* a destination write that fails leaves either nothing or a partial file
FailedWrite(path, kind) ==
    /\ \/ fs' = fs
       \/ fs' = WriteFile(path, Partial)
    /\ UNCHANGED writes
    /\ ReturnErr(kind)

\* One iteration of the first loop (lines 119-132): "Prefer PNG files."
PngPassItem ==
    /\ op = "icons" /\ pc = "pass1" /\ idx <= Len(cands)
    /\ visited' = Append(visited, <<1, idx>>)
    /\ UNCHANGED <<op, cands, ret, walkVars, tarVars, total>>
    /\ LET c == cands[idx] IN
       IF ~c.ok THEN
           ReturnErr("item") /\ UNCHANGED <<sizes, fs, writes>>
       ELSE IF ~is_png(c) THEN
           Continue /\ UNCHANGED <<sizes, fs, writes>>
       ELSE
           \/ ReturnErr("open") /\ UNCHANGED <<sizes, fs, writes>>
           \/ ReturnErr("decode") /\ UNCHANGED <<sizes, fs, writes>>
           \/ LET key == <<c.w, c.h, is_retina(c)>>
                  dest_path == get_dest_path(c.w, c.h, is_retina(c))
              IN IF ~sizes_contains(sizes, key) THEN
                     /\ sizes' = sizes_insert(sizes, key)
                     /\ \/ /\ fs' = WriteFile(dest_path, SourceBytes(idx))
                           /\ writes' = Append(writes,
                                  WriteRec(dest_path, key, idx, 0, SourceBytes(idx)))
                           /\ Continue
                        \/ FailedWrite(dest_path, "copy")
                 ELSE
                     Continue /\ UNCHANGED <<sizes, fs, writes>>

\* the first loop is exhausted: the second loop starts
PngPassEnd ==
    /\ op = "icons" /\ pc = "pass1" /\ idx > Len(cands)
    /\ pc' = "pass2"
    /\ idx' = 1
    /\ UNCHANGED <<op, result, failed, cands, iconIdx, sizes, fs, writes, visited>>
    /\ UNCHANGED <<ret, walkVars, tarVars, total>>

\* One iteration of the second loop (lines 134-162) up to the inner loop of
\* an icns container: "Fall back to non-PNG files for any missing sizes."
FallbackPassItem ==
    /\ op = "icons" /\ pc = "pass2" /\ idx <= Len(cands)
    /\ visited' = Append(visited, <<2, idx>>)
    /\ UNCHANGED <<op, cands, ret, walkVars, tarVars, total>>
    /\ LET c == cands[idx] IN
       IF ~c.ok THEN
           ReturnErr("item") /\ UNCHANGED <<sizes, fs, writes>>
       ELSE IF is_png(c) THEN
           Continue /\ UNCHANGED <<sizes, fs, writes>>
       ELSE IF is_icns(c) THEN
           \/ ReturnErr("open") /\ UNCHANGED <<sizes, fs, writes>>
           \/ ReturnErr("decode") /\ UNCHANGED <<sizes, fs, writes>>
           \/ /\ pc' = "icns"
              /\ iconIdx' = 1
              /\ UNCHANGED <<idx, result, failed, sizes, fs, writes>>
       ELSE
           \/ ReturnErr("decode") /\ UNCHANGED <<sizes, fs, writes>>
           \/ LET key == <<c.w, c.h, is_retina(c)>>
                  dest_path == get_dest_path(c.w, c.h, is_retina(c))
              IN IF ~sizes_contains(sizes, key) THEN
                     /\ sizes' = sizes_insert(sizes, key)
                     /\ \/ /\ fs' = WriteFile(dest_path, RasterPng(idx))
                           /\ writes' = Append(writes,
                                  WriteRec(dest_path, key, idx, 0, RasterPng(idx)))
                           /\ Continue
                        \/ FailedWrite(dest_path, "encode")
                 ELSE
                     Continue /\ UNCHANGED <<sizes, fs, writes>>

\* One iteration of `for icon_type in icon_family.available_icons()`
\* (lines 140-150)
IcnsIcon ==
    /\ op = "icons" /\ pc = "icns" /\ iconIdx <= Len(cands[idx].icons)
    /\ UNCHANGED <<op, cands, visited, ret, walkVars, tarVars, total>>
    /\ LET t == cands[idx].icons[iconIdx]
           key == <<t.w, t.h, icns_is_high_density(t)>>
           dest_path == get_dest_path(t.w, t.h, icns_is_high_density(t))
       IN IF ~sizes_contains(sizes, key) THEN
              /\ sizes' = sizes_insert(sizes, key)
              /\ \/ /\ fs' = WriteFile(dest_path, IcnsPng(idx, iconIdx))
                    /\ writes' = Append(writes,
                           WriteRec(dest_path, key, idx, iconIdx, IcnsPng(idx, iconIdx)))
                    /\ iconIdx' = iconIdx + 1
                    /\ UNCHANGED <<pc, idx, result, failed>>
                 \/ /\ ReturnErr("icon")       \* get_icon_with_type failed
                    /\ UNCHANGED <<fs, writes>>
                 \/ FailedWrite(dest_path, "write_png")
          ELSE
              /\ iconIdx' = iconIdx + 1
              /\ UNCHANGED <<pc, idx, result, failed, sizes, fs, writes>>

\* the inner loop is exhausted: next candidate of the second loop
IcnsEnd ==
    /\ op = "icons" /\ pc = "icns" /\ iconIdx > Len(cands[idx].icons)
    /\ pc' = "pass2"
    /\ idx' = idx + 1
    /\ iconIdx' = 0
    /\ UNCHANGED <<op, result, failed, cands, sizes, fs, writes, visited>>
    /\ UNCHANGED <<ret, walkVars, tarVars, total>>

\* the second loop is exhausted: Ok(())
FallbackPassEnd ==
    /\ op = "icons" /\ pc = "pass2" /\ idx > Len(cands)
    /\ pc' = "done"
    /\ result' = "Ok"
    /\ UNCHANGED <<op, failed, cands, idx, iconIdx, sizes, fs, writes, visited>>
    /\ UNCHANGED <<ret, walkVars, tarVars, total>>

NextIcons ==
    \/ PngPassItem
    \/ PngPassEnd
    \/ FallbackPassItem
    \/ IcnsIcon
    \/ IcnsEnd
    \/ FallbackPassEnd

SpecIcons == InitIcons /\ [][NextIcons]_vars

(* --------------------------- source trees ------------------------------ *)

Names == {"a", "b"}

\* file contents; a file's metadata length is its number of bytes
FileContents == { << >>, <<7>>, <<7, 9>> }

\* metadata lengths a directory may report (filesystem dependent)
DirLens == {0, 3}

FileNodes == { [kind |-> "file", len |-> Len(d), data |-> d] : d \in FileContents }
DirNodes == { [kind |-> "dir", len |-> l, data |-> << >>] : l \in DirLens }
Nodes == FileNodes \cup DirNodes

\* the root directory: src_dir of tar_and_gzip_dir, dir of total_dir_size
src_dir == <<"tmp", "foo">>
RootNode == [kind |-> "dir", len |-> 3, data |-> << >>]

EntryAt(t, rel) == IF rel = << >> THEN RootNode ELSE t[rel]

\* places of a tree where one more entry fits
Slots(t) ==
    { Append(d, nm) : d \in {<< >>} \cup { q \in DOMAIN t : t[q].kind = "dir" },
                      nm \in Names } \ DOMAIN t

\* all trees of at most n entries below the root
RECURSIVE TreesUpTo(_)
TreesUpTo(n) ==
    IF n = 0 THEN { << >> }
    ELSE LET T == TreesUpTo(n - 1)
         IN T \cup UNION { { (q :> node) @@ t : q \in Slots(t), node \in Nodes } : t \in T }

Trees == TreesUpTo(MaxEntries)

(* ------------------------------ WalkDir -------------------------------- *)

\* fs::read_dir of a directory of the tree: the paths of its children
ReadDir(rel) ==
    { q \in DOMAIN tree : Len(q) = Len(rel) + 1 /\ SubSeq(q, 1, Len(rel)) = rel }

\* DirEntry::file_type().is_dir()
is_dir(rel) == EntryAt(tree, rel).kind = "dir"

\* DirEntry::path(): the root as given, joined with the relative path
EntryPath(rel) == src_dir \o rel

\* DirEntry::metadata()?.len()
metadata_len_files_only(rel) ==
    IF EntryAt(tree, rel).kind = "dir" THEN 0 ELSE EntryAt(tree, rel).len

metadata_len(rel) == EntryAt(tree, rel).len

\* WalkDir::new(dir): the root is the first entry to come
WalkNew == << [dir |-> << >>, pending |-> { << >> }] >>

Pop(stk) == SubSeq(stk, 1, Len(stk) - 1)

Take(stk, rel) == [stk EXCEPT ![Len(stk)].pending = @ \ {rel}]

\* contents_first(true): a directory is yielded after its contents
RECURSIVE WalkStep_contents_first(_)
WalkStep_contents_first(stk) ==
    IF stk = << >> THEN {}
    ELSE IF stk[Len(stk)].pending = {}
         THEN IF Len(stk) = 1 THEN {} ELSE { <<stk[Len(stk)].dir, Pop(stk)>> }
         ELSE UNION { IF is_dir(rel)
                      THEN WalkStep_contents_first(
                               Append(Take(stk, rel), [dir |-> rel, pending |-> ReadDir(rel)]))
                      ELSE { <<rel, Take(stk, rel)>> }
                    : rel \in stk[Len(stk)].pending }

\* Iterator::next of the walk (contents_first is false; siblings come in the
\* order read_dir gives them, which is any order): the set of
\* <<entry, stack afterwards>> the call may produce, empty when the walk is over
RECURSIVE WalkStep(_)
WalkStep(stk) ==
    IF stk = << >> THEN {}
    ELSE IF stk[Len(stk)].pending = {}
         THEN WalkStep(Pop(stk))
         ELSE { <<rel, IF is_dir(rel)
                       THEN Append(Take(stk, rel), [dir |-> rel, pending |-> ReadDir(rel)])
                       ELSE Take(stk, rel)>>
              : rel \in stk[Len(stk)].pending }

(* -------------------- tar_and_gzip_dir, create_tar_from_dir ------------ *)

\* Path::with_extension on a path whose file name has no extension
with_extension(path, ext) == [path EXCEPT ![Len(path)] = @ \o "." \o ext]

dest_path == with_extension(src_dir, "tar.gz")

\* Path::strip_prefix(base).unwrap()
strip_prefix_keep(path, base) == path

strip_prefix(path, base) == SubSeq(path, Len(base) + 1, Len(path))

\* Builder::append_dir(dest_path, src_path)
append_dir(dest, rel) == [path |-> dest, kind |-> "dir", data |-> << >>]

\* File::open(src_path) and Builder::append_file(dest_path, &mut src_file)
append_file(dest, rel) ==
    [path |-> dest, kind |-> "file", data |-> EntryAt(tree, rel).data]

tarFlags == <<tarFinished, gzFinished, flushed>>

InitTar ==
    /\ op = "tar"
    /\ pc = "create_file"
    /\ result = "none"
    /\ failed = ""
    /\ ret = NoValue
    /\ tree \in Trees
    /\ stack = << >>
    /\ archive = << >> /\ steps = << >>
    /\ tarFinished = FALSE /\ gzFinished = FALSE /\ flushed = FALSE
    /\ destExists = FALSE /\ srcExists = TRUE
    /\ total = 0
    /\ cands = << >> /\ idx = 0 /\ iconIdx = 0 /\ sizes = {}
    /\ fs = << >> /\ writes = << >> /\ visited = << >>

\* `?` on an Err in tar_and_gzip_dir, create_tar_from_dir, total_dir_size
WalkFail(kind) ==
    /\ failed' = kind
    /\ result' = "Err"
    /\ pc' = "done"
    /\ UNCHANGED <<ret, steps>>

Step(name, next) ==
    /\ steps' = Append(steps, name)
    /\ pc' = next
    /\ UNCHANGED <<result, failed, ret>>

\* line 56: common::create_file(&dest_path)?
CreateDestFile ==
    /\ op = "tar" /\ pc = "create_file"
    /\ \/ destExists' = TRUE /\ Step("create_file", "gzip_new")
       \/ destExists' \in BOOLEAN /\ WalkFail("create_file")
    /\ UNCHANGED <<op, iconVars, walkVars, archive, tarFlags, srcExists, total>>

\* line 57: gzip::Encoder::new(dest_file)?, then line 67-68:
\* tar::Builder::new(dest_file) and WalkDir::new(&src_dir)
GzipNew ==
    /\ op = "tar" /\ pc = "gzip_new"
    /\ \/ stack' = WalkNew /\ Step("gzip_new", "walk")
       \/ UNCHANGED stack /\ WalkFail("gzip_new")
    /\ UNCHANGED <<op, iconVars, tree, archive, tarFlags, destExists, srcExists, total>>

\* lines 68-81: one iteration of `for entry in WalkDir::new(&src_dir)`
TarLoopItem ==
    /\ op = "tar" /\ pc = "walk" /\ WalkStep(stack) # {}
    /\ UNCHANGED <<op, iconVars, tree, tarFlags, destExists, srcExists, total>>
    /\ \/ UNCHANGED <<stack, archive>> /\ WalkFail("walk")       \* entry?
       \/ \E r \in WalkStep(stack) :
            LET src_path == EntryPath(r[1]) IN
            /\ stack' = r[2]
            /\ IF src_path = src_dir THEN
                   UNCHANGED <<archive, steps, pc, result, failed, ret>>
               ELSE IF is_dir(r[1]) THEN
                   \/ /\ archive' = Append(archive,
                              append_dir(strip_prefix(src_path, src_dir), r[1]))
                      /\ Step("append", "walk")
                   \/ UNCHANGED archive /\ WalkFail("append_dir")
               ELSE
                   \/ /\ archive' = Append(archive,
                              append_file(strip_prefix(src_path, src_dir), r[1]))
                      /\ Step("append", "walk")
                   \/ UNCHANGED archive /\ WalkFail("open")
                   \/ UNCHANGED archive /\ WalkFail("append_file")

\* lines 82-83: the walk is over; tar_builder.into_inner()? finishes the
\* archive and gives the gzip encoder back
TarFinish_skip ==
    /\ op = "tar" /\ pc = "walk" /\ WalkStep(stack) = {}
    /\ UNCHANGED tarFinished /\ pc' = "gzip_finish"
    /\ UNCHANGED <<steps, result, failed, ret>>
    /\ UNCHANGED <<op, iconVars, walkVars, archive, gzFinished, flushed,
                   destExists, srcExists, total>>

TarFinish ==
    /\ op = "tar" /\ pc = "walk" /\ WalkStep(stack) = {}
    /\ \/ tarFinished' = TRUE /\ Step("tar_finish", "gzip_finish")
       \/ UNCHANGED tarFinished /\ WalkFail("into_inner")
    /\ UNCHANGED <<op, iconVars, walkVars, archive, gzFinished, flushed,
                   destExists, srcExists, total>>

\* line 59: gzip_encoder.finish().into_result()?
GzipFinish ==
    /\ op = "tar" /\ pc = "gzip_finish"
    /\ \/ gzFinished' = TRUE /\ Step("gzip_finish", "flush")
       \/ UNCHANGED gzFinished /\ WalkFail("gzip_finish")
    /\ UNCHANGED <<op, iconVars, walkVars, archive, tarFinished, flushed,
                   destExists, srcExists, total>>

\* line 60: dest_file.flush()?
FlushDest ==
    /\ op = "tar" /\ pc = "flush"
    /\ \/ flushed' = TRUE /\ Step("flush", "return")
       \/ UNCHANGED flushed /\ WalkFail("flush")
    /\ UNCHANGED <<op, iconVars, walkVars, archive, tarFinished, gzFinished,
                   destExists, srcExists, total>>

\* line 61: Ok(dest_path)
ReturnDestPath ==
    /\ op = "tar" /\ pc = "return"
    /\ result' = "Ok"
    /\ ret' = [some |-> TRUE, val |-> dest_path]
    /\ pc' = "done"
    /\ steps' = Append(steps, "return")
    /\ UNCHANGED <<op, failed, iconVars, walkVars, archive, tarFlags,
                   destExists, srcExists, total>>

NextTar ==
    \/ CreateDestFile
    \/ GzipNew
    \/ TarLoopItem
    \/ TarFinish
    \/ GzipFinish
    \/ FlushDest
    \/ ReturnDestPath

SpecTar == InitTar /\ [][NextTar]_vars

(* ---------------------------- total_dir_size --------------------------- *)

InitSize ==
    /\ op = "size"
    /\ pc = "walk"
    /\ result = "none"
    /\ failed = ""
    /\ ret = NoValue
    /\ tree \in Trees
    /\ stack = WalkNew
    /\ total = 0
    /\ archive = << >> /\ steps = << >>
    /\ tarFinished = FALSE /\ gzFinished = FALSE /\ flushed = FALSE
    /\ destExists = FALSE /\ srcExists = TRUE
    /\ cands = << >> /\ idx = 0 /\ iconIdx = 0 /\ sizes = {}
    /\ fs = << >> /\ writes = << >> /\ visited = << >>

\* lines 99-103: one iteration of `for entry in WalkDir::new(&dir)`
SizeLoopItem ==
    /\ op = "size" /\ pc = "walk" /\ WalkStep(stack) # {}
    /\ UNCHANGED <<op, iconVars, tree, archive, tarFlags, destExists, srcExists>>
    /\ \/ UNCHANGED <<stack, total>> /\ WalkFail("walk")          \* entry?
       \/ \E r \in WalkStep(stack) :
            /\ stack' = r[2]
            /\ \/ UNCHANGED total /\ WalkFail("metadata")         \* .metadata()?
               \/ /\ total' = total + metadata_len(r[1])
                  /\ Step("add", "walk")

\* line 104: Ok(total)
ReturnTotal ==
    /\ op = "size" /\ pc = "walk" /\ WalkStep(stack) = {}
    /\ result' = "Ok"
    /\ ret' = [some |-> TRUE, val |-> total]
    /\ pc' = "done"
    /\ UNCHANGED <<op, failed, iconVars, walkVars, archive, steps, tarFlags,
                   destExists, srcExists, total>>

NextSize ==
    \/ SizeLoopItem
    \/ ReturnTotal

SpecSize == InitSize /\ [][NextSize]_vars

(* ------------------- properties of generate_icon_files ----------------- *)

IsPngCand(i) == cands[i].ok /\ cands[i].ext = "png"
IsIcnsCand(i) == cands[i].ok /\ cands[i].ext = "icns"
IsFallbackCand(i) == cands[i].ok /\ cands[i].ext # "png"

\* the keys a candidate offers, read off the input
IconKey(t) == <<t.w, t.h, t.density > 1>>
Offers(i) ==
    IF ~cands[i].ok THEN {}
    ELSE IF cands[i].ext = "icns"
         THEN { IconKey(cands[i].icons[j]) : j \in 1..Len(cands[i].icons) }
         ELSE { <<cands[i].w, cands[i].h, cands[i].retina>> }
ObservedKeys == UNION { Offers(i) : i \in 1..Len(cands) }
PngKeys == UNION { Offers(i) : i \in { n \in 1..Len(cands) : IsPngCand(n) } }

\* the destination layout as the themed-icon directory contract words it
DestTemplate(key) ==
    data_dir \o "/usr/share/icons/hicolor/" \o ToString(key[1]) \o "x"
             \o ToString(key[2]) \o (IF key[3] THEN "@2x" ELSE "")
             \o "/apps/" \o binary_name \o ".png"

WrittenPaths == { writes[n].path : n \in 1..Len(writes) }

\* C1: on Ok the number of distinct destination files written equals the
\* number of distinct keys observed across all candidates, no two writes
\* target the same key and every destination path is written at most once.
C1_Dedup ==
    result = "Ok" /\ op = "icons" =>
        /\ Cardinality(WrittenPaths) = Cardinality(ObservedKeys)
        /\ Cardinality(DOMAIN fs) = Cardinality(ObservedKeys)
        /\ Len(writes) = Cardinality(WrittenPaths)
        /\ \A m, n \in 1..Len(writes) : m # n => writes[m].key # writes[n].key

\* two candidates offer a common key and a second key as well
C1_Witness ==
    /\ op = "icons" /\ result = "Ok" /\ Len(cands) = 2
    /\ Offers(1) \cap Offers(2) # {}
    /\ Cardinality(ObservedKeys) = 2
    /\ Len(writes) = 2

\* C2: when a png candidate and a non-png candidate offer the same key and
\* the call returns Ok, the destination file of that key holds the bytes of
\* a png source, wherever the two candidates stand in the list.
C2_Precedence ==
    result = "Ok" /\ op = "icons" =>
        \A i, j \in 1..Len(cands) :
            IsPngCand(i) /\ IsFallbackCand(j) =>
                \A k \in Offers(i) \cap Offers(j) :
                    /\ DestTemplate(k) \in DOMAIN fs
                    /\ \E n \in 1..Len(cands) :
                          IsPngCand(n) /\ fs[DestTemplate(k)] = SourceBytes(n)

\* the non-png candidate comes first in the list, the png second
C2_Witness ==
    /\ op = "icons" /\ result = "Ok" /\ Len(cands) = 2
    /\ IsFallbackCand(1) /\ IsPngCand(2)
    /\ Offers(1) \cap Offers(2) # {}

\* C3: every destination written is
\* {data_dir}/usr/share/icons/hicolor/{W}x{H}[@2x]/apps/{binary_name}.png
\* with W, H the source's dimensions and @2x present exactly when the source
\* is high density (is_retina for png and raster, pixel_density > 1 for icns).
SourceKey(wr) ==
    IF cands[wr.src].ext = "icns"
    THEN <<cands[wr.src].icons[wr.icon].w, cands[wr.src].icons[wr.icon].h,
           cands[wr.src].icons[wr.icon].density > 1>>
    ELSE <<cands[wr.src].w, cands[wr.src].h, cands[wr.src].retina>>

C3_Path ==
    op = "icons" =>
        /\ \A n \in 1..Len(writes) : writes[n].path = DestTemplate(SourceKey(writes[n]))
        /\ DOMAIN fs \subseteq { DestTemplate(k) : k \in ObservedKeys }

\* a high-density and a normal-density destination were both written, one of
\* them out of an icns container
C3_Witness ==
    /\ op = "icons"
    /\ \E m, n \in 1..Len(writes) :
          /\ writes[m].key[3] /\ ~writes[n].key[3]
          /\ writes[m].icon > 0 /\ writes[n].icon = 0

\* C8: the first failure makes the call return the error at once; after it
\* no destination is written and no candidate is pulled, and every
\* destination written before it still holds what was written.
C8_FailFast ==
    /\ [](op = "icons" /\ failed # "" => result = "Err")
    /\ [][op = "icons" /\ failed # "" => UNCHANGED <<fs, writes, visited, sizes>>]_vars
    /\ [](op = "icons" =>
            \A n \in 1..Len(writes) :
                /\ writes[n].path \in DOMAIN fs
                /\ fs[writes[n].path] = writes[n].content)

\* a destination was written, then a later step failed while a candidate of
\* the list was still to come
C8_Witness ==
    /\ op = "icons" /\ result = "Err"
    /\ Len(writes) >= 1
    /\ idx < Len(cands)

\* C10: a key no png candidate covers is produced from the earliest non-png
\* candidate that offers it; later sources write nothing for it.
FirstOffer(k) ==
    CHOOSE i \in 1..Len(cands) :
        /\ k \in Offers(i)
        /\ \A n \in 1..(i - 1) : k \notin Offers(n)
FirstIcon(i, k) ==
    IF cands[i].ext = "icns"
    THEN CHOOSE j \in 1..Len(cands[i].icons) :
            /\ IconKey(cands[i].icons[j]) = k
            /\ \A n \in 1..(j - 1) : IconKey(cands[i].icons[n]) # k
    ELSE 0
FirstEncoding(k) ==
    IF cands[FirstOffer(k)].ext = "icns"
    THEN IcnsPng(FirstOffer(k), FirstIcon(FirstOffer(k), k))
    ELSE RasterPng(FirstOffer(k))

C10_FirstWins ==
    result = "Ok" /\ op = "icons" =>
        \A k \in ObservedKeys \ PngKeys :
            /\ DestTemplate(k) \in DOMAIN fs
            /\ fs[DestTemplate(k)] = FirstEncoding(k)
            /\ \A n \in 1..Len(writes) :
                  writes[n].key = k => writes[n].src = FirstOffer(k)
            /\ Cardinality({ n \in 1..Len(writes) : writes[n].key = k }) = 1

\* an icns container and a raster after it offer the same uncovered key
C10_Witness ==
    /\ op = "icons" /\ result = "Ok" /\ Len(cands) = 2
    /\ IsIcnsCand(1) /\ IsFallbackCand(2) /\ ~IsIcnsCand(2)
    /\ Offers(1) \cap Offers(2) # {}

(* ------- properties of tar_and_gzip_dir, create_tar_from_dir ----------- *)

\* what unpacking an entry stream gives: path -> kind and contents
RECURSIVE Unpack(_)
Unpack(entries) ==
    IF entries = << >> THEN << >>
    ELSE LET e == entries[Len(entries)]
         IN (e.path :> [kind |-> e.kind, data |-> e.data])
                @@ Unpack(SubSeq(entries, 1, Len(entries) - 1))

\* the source tree as relative paths with kind and contents
TreeContents == [q \in DOMAIN tree |-> [kind |-> tree[q].kind, data |-> tree[q].data]]

IsProperPrefix(p, q) == Len(p) < Len(q) /\ SubSeq(q, 1, Len(p)) = p

\* C4: on success the archive has exactly one entry per filesystem entry
\* strictly below the root, named by its path relative to the root, files
\* with their full contents; the root is no entry; unpacking gives the tree.
C4_RoundTrip ==
    op = "tar" /\ result = "Ok" =>
        /\ Len(archive) = Cardinality(DOMAIN tree)
        /\ \A q \in DOMAIN tree :
              Cardinality({ n \in 1..Len(archive) : archive[n].path = q }) = 1
        /\ \A n \in 1..Len(archive) :
              /\ archive[n].path # << >>
              /\ archive[n].path \in DOMAIN tree
              /\ archive[n].kind = tree[archive[n].path].kind
              /\ archive[n].kind = "file" => archive[n].data = tree[archive[n].path].data
        /\ Unpack(archive) = TreeContents

\* a tree with a non-empty file inside a subdirectory was archived
C4_Witness ==
    /\ op = "tar" /\ result = "Ok"
    /\ \E q \in DOMAIN tree : Len(q) = 2 /\ tree[q].kind = "file" /\ tree[q].data # << >>
    /\ Cardinality(DOMAIN tree) = 3

\* C5: in the entry stream the entry of a directory precedes the entries of
\* all its descendants, whatever order the walk visits siblings in.
C5_DirFirst ==
    op = "tar" =>
        /\ \A m, n \in 1..Len(archive) :
              IsProperPrefix(archive[m].path, archive[n].path) => m < n
        /\ \A n \in 1..Len(archive) :
              \A k \in 1..(Len(archive[n].path) - 1) :
                  \E m \in 1..(n - 1) :
                      /\ archive[m].path = SubSeq(archive[n].path, 1, k)
                      /\ archive[m].kind = "dir"

\* a directory and its child are in the stream, after a sibling of the directory
C5_Witness ==
    /\ op = "tar"
    /\ Len(archive) = 3
    /\ Len(archive[1].path) = 1
    /\ Len(archive[3].path) = 2
    /\ IsProperPrefix(archive[2].path, archive[3].path)

\* C6: on success all entries are appended, then the tar container is
\* finalized, then the gzip encoder finished, then the file flushed, then
\* the path returned; a failure at any stage returns an error and no path.
Appends(n) == [i \in 1..n |-> "append"]

C6_FinalizationOrder ==
    op = "tar" =>
        /\ result = "Ok" =>
              /\ tarFinished /\ gzFinished /\ flushed
              /\ ret = [some |-> TRUE, val |-> dest_path]
              /\ Len(archive) = Cardinality(DOMAIN tree)
              /\ steps = <<"create_file", "gzip_new">> \o Appends(Len(archive))
                           \o <<"tar_finish", "gzip_finish", "flush", "return">>
        /\ tarFinished => WalkStep(stack) = {} /\ Len(archive) = Cardinality(DOMAIN tree)
        /\ gzFinished => tarFinished
        /\ flushed => gzFinished
        /\ ret.some => flushed
        /\ failed # "" => result = "Err" /\ ~ret.some

\* a tree of several entries went through all the stages
C6_Witness ==
    /\ op = "tar" /\ result = "Ok"
    /\ Len(archive) >= 2
    /\ flushed

\* C7: after a successful return the source directory no longer exists and
\* the returned path is the sibling .tar.gz of the source directory.
C7_DeletesSource ==
    op = "tar" /\ result = "Ok" =>
        /\ ~srcExists
        /\ destExists
        /\ ret = [some |-> TRUE, val |-> <<"tmp", "foo.tar.gz">>]

(* --------------------- properties of total_dir_size -------------------- *)

RECURSIVE SumLen(_, _)
SumLen(t, paths) ==
    IF paths = {} THEN 0
    ELSE LET q == CHOOSE x \in paths : TRUE
         IN t[q].len + SumLen(t, paths \ {q})

SumAllEntries == RootNode.len + SumLen(tree, DOMAIN tree)
SumFileBytes == SumLen(tree, { q \in DOMAIN tree : tree[q].kind = "file" })

\* C9: total_dir_size returns the sum of the metadata lengths of every
\* entry of the walk, the directories' own lengths included (so at least
\* the files' bytes), and an error, never a partial sum, when an entry or
\* its metadata cannot be read.
C9_TotalSize ==
    op = "size" =>
        /\ result = "Ok" =>
              /\ ret = [some |-> TRUE, val |-> SumAllEntries]
              /\ ret.val >= SumFileBytes
        /\ failed # "" => result = "Err" /\ ~ret.some
        /\ result # "Ok" => ~ret.some

\* two files with bytes under a subdirectory that reports a length of its own
C9_Witness ==
    /\ op = "size" /\ result = "Ok"
    /\ \E d, f, g \in DOMAIN tree :
          /\ tree[d].kind = "dir" /\ tree[d].len > 0
          /\ f # g /\ IsProperPrefix(d, f)
          /\ tree[f].kind = "file" /\ tree[f].len > 0
          /\ tree[g].kind = "file" /\ tree[g].len > 0
    /\ ret.val > SumFileBytes

====
